---------------------------- MODULE Spec2Model ----------------------------
(***************************************************************************)
(* Batumi front panel (Ui) and oscillator (Lfo), src/ui.cc.                *)
(*                                                                         *)
(* The panel is polled (Ui::Poll): switches and pots are turned into       *)
(* events; Ui::DoEvents dispatches them to the mode state machine, which   *)
(* re-initialises the four oscillators on a feature change.  Lfo::Step is  *)
(* run by the oscillator-rate context.                                     *)
(*                                                                         *)
(* Number representation.  TLC integers are 32 bit signed.                 *)
(*  - The millisecond clock and press_time_ are uint32_t; they are held as *)
(*    the int32 reading of the same bits (2^32 - k reads -k), so that the  *)
(*    wrap 2^32 - 1 -> 0 is the step -1 -> 0 and the int32 difference      *)
(*    system_clock.milliseconds() - press_time_[i] is the plain            *)
(*    difference.  The guards keep the clock in a window around 0.         *)
(*  - The oscillator's uint32_t fields are pairs <<hi, lo>> of 16 bit      *)
(*    limbs with carry, wrapping at 2^32.                                  *)
(***************************************************************************)
EXTENDS Integers, Sequences, FiniteSets, TLC

\* ------------------------------------------------------------------------
\* Program constants
\* ------------------------------------------------------------------------
kLongPressDuration == 500
kVeryLongPressDuration == 2000
kPotMoveThreshold == 64
kCatchupThreshold == 1024
\* ui.h / drivers (declared outside src/ui.cc, values as the loops use them)
kNumSwitches == 4
kNumPots == 4
kNumLfos == 4
SWITCH_SYNC == 0
SWITCH_WAV1 == 1
SWITCH_WAV2 == 2
SWITCH_SELECT == 3
FEAT_MODE_FREE == 0
FEAT_MODE_LAST == 4
kSplashPeriod == 64
kSplashCycles == 8
kFineCenter == 32768
UINT16_MAX == 65535

UI_MODE_SPLASH == "SPLASH"
UI_MODE_ZOOM == "ZOOM"
UI_MODE_NORMAL == "NORMAL"
UiModes == {UI_MODE_SPLASH, UI_MODE_ZOOM, UI_MODE_NORMAL}
CONTROL_SWITCH == "CONTROL_SWITCH"
CONTROL_POT == "CONTROL_POT"

Switches == 0 .. (kNumSwitches - 1)
Pots == 0 .. (kNumPots - 1)
Lfos == 0 .. (kNumLfos - 1)

\* ------------------------------------------------------------------------
\* Bounds of the model
\* ------------------------------------------------------------------------
\* polls made in one run, counted from the start value of the counter
MaxPolls == 9
\* the same for the runs of the switch gestures
MaxSwitchPolls == 7
\* polls already made, with the panel left alone, when a run starts late
SplashIdle == 575
\* the clock window: the largest reading the clock is advanced to
MaxClock == 2600
\* the same for the runs of the whole panel
MaxPanelClock == 520
\* events the queue holds
MaxQueue == 2
\* oscillator ticks after the last (re-)initialisation
MaxLfoSteps == 1
\* changes of a pot's ADC reading in one run
MaxTurns == 2
\* calls of Ui::Init after the first
MaxInits == 1
\* polls in the runs of the splash
MaxSplashPolls == 645
\* polls in the runs of the re-initialisation
MaxLfoPolls == 3
\* Steps in the runs of one oscillator alone
MaxStepCalls == 12
\* the largest divider in those runs
MaxDivider == 4
\* the pitches given to ComputePhaseIncrement: octaves below 0, and from 0 up
OctavesDown == 3
OctavesUp == 5

\* ------------------------------------------------------------------------
\* uint32_t as two 16 bit limbs
\* ------------------------------------------------------------------------
W16 == 65536

\* a + b with the carry out of the low limb dropped
U32Add_NoCarry(a, b) == <<(a[1] + b[1]) % W16, (a[2] + b[2]) % W16>>

U32Add(a, b) ==
  LET lo == a[2] + b[2]
      hi == a[1] + b[1] + (lo \div W16)
  IN  <<hi % W16, lo % W16>>

\* a + b does not fit 32 bits
U32Carry(a, b) == a[1] + b[1] + ((a[2] + b[2]) \div W16) >= W16

U32Lt(a, b) == a[1] < b[1] \/ (a[1] = b[1] /\ a[2] < b[2])

\* a / d for 1 <= d < 2^15
U32DivSmall(a, d) ==
  LET r == a[1] % d
  IN  <<a[1] \div d, (r * W16 + a[2]) \div d>>

\* (a * c) mod 2^32 for 0 <= c < 2^15
U32MulSmall(a, c) ==
  LET lo == a[2] * c
      hi == a[1] * c + (lo \div W16)
  IN  <<hi % W16, lo % W16>>

U32Zero == <<0, 0>>
UINT32_MAX == <<65535, 65535>>
\* UINT32_MAX >> 8
U32Max_Shr8 == <<255, 65535>>

Abs(x) == IF x < 0 THEN -x ELSE x


\* ------------------------------------------------------------------------
\* State
\* ------------------------------------------------------------------------
VARIABLES
  \* environment
  clock,                  \* system_clock.milliseconds()
  sw_down,                \* debounced level of each switch at the last Debounce
  adc,                    \* adc_->pot(i)
  \* Ui
  mode,                   \* mode_
  feat_mode,              \* feat_mode_
  animation_counter,      \* animation_counter_ (file scope)
  press_time,             \* press_time_[i]
  detect_very_long_press, \* detect_very_long_press_[i]
  pot_value,              \* pot_value_[i]         (last reported value)
  pot_filtered_value,     \* pot_filtered_value_[i]
  pot_coarse_value,       \* pot_coarse_value_[i]
  pot_fine_value,         \* pot_fine_value_[i]
  catchup_state,          \* catchup_state_[i]
  queue,                  \* queue_
  in_do_events,           \* DoEvents is inside its while loop
  \* Lfo
  lfo,                    \* lfo_[i]
  init_pc,                \* position of a re-initialisation in progress
  \* history (not program state)
  gesture,                \* per switch: what Poll saw and enqueued since the press
  last,                   \* the last operation, and the event it handled
  hist                    \* counters of the run and the re-initialisation race

envVars == <<clock, sw_down, adc>>
swVars  == <<press_time, detect_very_long_press>>
potVars == <<pot_value, pot_filtered_value, pot_coarse_value, pot_fine_value,
             catchup_state>>
uiVars  == <<mode, feat_mode, animation_counter, queue, in_do_events>>
lfoVars == <<lfo, init_pc>>
vars == <<clock, sw_down, adc, mode, feat_mode, animation_counter, press_time,
          detect_very_long_press, pot_value, pot_filtered_value,
          pot_coarse_value, pot_fine_value, catchup_state, queue, in_do_events,
          lfo, init_pc, gesture, last, hist>>

\* ------------------------------------------------------------------------
\* Lfo
\* ------------------------------------------------------------------------
\* The fields Lfo::Init writes, in the order it writes them.
LfoInitOrder ==
  << <<"phase", U32Zero>>,
     <<"divided_phase", U32Zero>>,
     <<"initial_phase", U32Zero>>,
     <<"phase_increment", U32Max_Shr8>>,
     <<"divider", 1>>,
     <<"divider_count", 0>>,
     <<"level", UINT16_MAX>> >>

\* One field write of Lfo::Init: the k-th assignment.
LfoInitWrite(l, k) == [l EXCEPT ![LfoInitOrder[k][1]] = LfoInitOrder[k][2]]

RECURSIVE LfoInitFrom(_, _)
LfoInitFrom(l, k) ==
  IF k > Len(LfoInitOrder) THEN l ELSE LfoInitFrom(LfoInitWrite(l, k), k + 1)

\* Lfo::Init
LfoInit(l) == LfoInitFrom(l, 1)

\* Lfo::Step with line 279 as divider_count_ + 1
LfoStep_CountFree(l) ==
  LET phase == U32Add(l.phase, l.phase_increment)
      count == IF U32Lt(phase, l.phase_increment)
                 THEN l.divider_count + 1
                 ELSE l.divider_count
      divided == U32Add(U32DivSmall(phase, l.divider),
                        U32MulSmall(U32DivSmall(UINT32_MAX, l.divider), count))
  IN  [l EXCEPT !.phase = phase, !.divider_count = count,
                !.divided_phase = divided]

\* Lfo::Step
LfoStep(l) ==
  LET phase == U32Add(l.phase, l.phase_increment)
      count == IF U32Lt(phase, l.phase_increment)
                 THEN (l.divider_count + 1) % l.divider
                 ELSE l.divider_count
      divided == U32Add(U32DivSmall(phase, l.divider),
                        U32MulSmall(U32DivSmall(UINT32_MAX, l.divider), count))
  IN  [l EXCEPT !.phase = phase, !.divider_count = count,
                !.divided_phase = divided]

\* An oscillator as its owner set it up: some phase, pitch and divider.
LfoRunning(ph, inc, d, dc) ==
  [phase |-> ph, divided_phase |-> U32Add(U32DivSmall(ph, d),
                     U32MulSmall(U32DivSmall(UINT32_MAX, d), dc)),
   initial_phase |-> U32Zero, phase_increment |-> inc,
   divider |-> d, divider_count |-> dc, level |-> UINT16_MAX]

LfoFresh == LfoRunning(U32Zero, U32Max_Shr8, 1, 0)

\* ------------------------------------------------------------------------
\* Events and the queue
\* ------------------------------------------------------------------------
\* Event {control_type, control_id, data}; site names the AddEvent call of
\* Poll that made the event (history, the program does not hold it).
Event(type, id, data, site) ==
  [control_type |-> type, control_id |-> id, data |-> data, site |-> site]

NoEvent == Event("NONE", 0, 0, "none")

RECURSIVE ConcatTo(_, _)
\* f[0] \o f[1] \o ... \o f[n]
ConcatTo(f, n) == IF n < 0 THEN <<>> ELSE ConcatTo(f, n - 1) \o f[n]

\* ------------------------------------------------------------------------
\* Ui::Poll, switches (lines 65-98)
\* ------------------------------------------------------------------------
\* switches_.Debounce(): the readings of one switch for this poll, from its
\* debounced level at the previous poll and now.
just_pressed(was, now) == now /\ ~was
pressed(was, now) == now
released(was, now) == was /\ ~now

\* line 75
LongPressFires(dv, pressed_time) ==
  ~dv /\ pressed_time > kLongPressDuration

\* line 80
VeryLongPressFires(dv, pressed_time) ==
  dv /\ pressed_time > kVeryLongPressDuration

\* (a slip: the release is not held back after a long press)
ReleaseFires_Unguarded(rl, pt, dv) == rl /\ pt # 0

\* lines 88-90
ReleaseFires(rl, pt, dv) == rl /\ pt # 0 /\ ~dv

\* One iteration of the switch loop for switch i at clock reading `now`:
\* `was` and `lv` are its debounced level at the previous poll and at this
\* one, pt and dv its press_time_[i] and detect_very_long_press_[i].  The
\* result holds their new values and the events added, in order.
SwitchPoll(i, now, was, lv, pt, dv) ==
  LET jp == just_pressed(was, lv)
      pr == pressed(was, lv)
      rl == released(was, lv)
      \* lines 66-70
      pt1 == IF jp THEN now ELSE pt
      dv1 == IF jp THEN FALSE ELSE dv
      ev1 == IF jp THEN <<Event(CONTROL_SWITCH, i, 0, "press")>> ELSE <<>>
      \* lines 71-86
      pressed_time == now - pt1
      long == pr /\ LongPressFires(dv1, pressed_time)
      vlong == pr /\ VeryLongPressFires(dv1, pressed_time)
      ev2 == IF long THEN <<Event(CONTROL_SWITCH, i, pressed_time, "long")>>
             ELSE IF vlong
               THEN <<Event(CONTROL_SWITCH, i, pressed_time, "very_long")>>
               ELSE <<>>
      dv2 == IF long THEN TRUE ELSE IF vlong THEN FALSE ELSE dv1
      pt2 == IF vlong THEN 0 ELSE pt1
      \* lines 88-97
      rel == ReleaseFires(rl, pt2, dv2)
      ev3 == IF rel
               THEN <<Event(CONTROL_SWITCH, i, now - pt2 + 1, "release")>>
               ELSE <<>>
  IN  [press_time |-> IF rel THEN 0 ELSE pt2,
       detect |-> IF rel THEN FALSE ELSE dv2,
       events |-> ev1 \o ev2 \o ev3,
       jp |-> jp, pr |-> pr, rl |-> rl, pressed_time |-> pressed_time]

\* ------------------------------------------------------------------------
\* Ui::Poll, pots (lines 100-111)
\* ------------------------------------------------------------------------
\* line 103
PotFilter(filtered, adc_value) == (31 * filtered + adc_value) \div 32

\* lines 106-107 with the second test left out
PotMoved_UpOnly(value, current_value) ==
  value >= current_value + kPotMoveThreshold

\* lines 106-107
PotMoved(value, current_value) ==
  \/ value >= current_value + kPotMoveThreshold
  \/ value <= current_value - kPotMoveThreshold

\* One iteration of the pot loop for pot i reading adc_value.
PotPoll(i, adc_value, filtered, current_value) ==
  LET value == PotFilter(filtered, adc_value)
      moved == PotMoved(value, current_value)
  IN  [filtered |-> value,
       value |-> IF moved THEN value ELSE current_value,
       events |-> IF moved THEN <<Event(CONTROL_POT, i, value, "pot")>>
                  ELSE <<>>]

\* ------------------------------------------------------------------------
\* Ui::Poll, paint (lines 113-144); the LEDs are output only
\* ------------------------------------------------------------------------
\* lines 117-121, on the incremented counter
SplashEnds(counter) ==
  counter % kSplashPeriod = 0 /\ counter \div kSplashPeriod > kSplashCycles

PaintMode(m, counter) ==
  IF m = UI_MODE_SPLASH /\ SplashEnds(counter) THEN UI_MODE_NORMAL ELSE m

\* ------------------------------------------------------------------------
\* Event handlers (lines 153-204).  u is the part of the Ui the handlers
\* write: [mode, feat_mode, coarse, fine, catchup, lfo].
\* ------------------------------------------------------------------------
UiNow ==
  [mode |-> mode, feat_mode |-> feat_mode, coarse |-> pot_coarse_value,
   fine |-> pot_fine_value, catchup |-> catchup_state, lfo |-> lfo]

\* Ui::OnSwitchPressed (lines 153-154)
OnSwitchPressed(u, e) == u

\* (a slip: the long press test the wrong way round)
ReleaseKind_Reversed(data) ==
  IF data > kVeryLongPressDuration THEN "ignored"
  ELSE IF data < kLongPressDuration THEN "zoom"
  ELSE "short"

\* lines 163-166: what a select event of this duration is taken for
ReleaseKind(data) ==
  IF data > kVeryLongPressDuration THEN "ignored"
  ELSE IF data > kLongPressDuration THEN "zoom"
  ELSE "short"

\* (a slip: every pot is flagged when the zoom is left)
CatchupNeeded_Always(value, coarse) == TRUE

\* line 173
CatchupNeeded(value, coarse) == Abs(value - coarse) > kCatchupThreshold

\* (a slip: no wrap after the last feature)
NextFeature_NoWrap(f) == f + 1

\* line 180
NextFeature(f) == (f + 1) % FEAT_MODE_LAST

\* lines 181-182
InitAllLfos(l) == [i \in Lfos |-> LfoInit(l[i])]

\* (a slip: leaving the zoom restarts the splash)
ShortRelease_ToSplash(u) ==
  CASE u.mode = UI_MODE_SPLASH -> u
    [] u.mode = UI_MODE_ZOOM -> [u EXCEPT !.mode = UI_MODE_SPLASH]
    [] u.mode = UI_MODE_NORMAL ->
         [u EXCEPT !.feat_mode = NextFeature(u.feat_mode),
                   !.lfo = InitAllLfos(u.lfo)]

\* lines 167-184: a short release, by mode
ShortRelease(u) ==
  CASE u.mode = UI_MODE_SPLASH -> u
    [] u.mode = UI_MODE_ZOOM ->
         [u EXCEPT !.catchup = [i \in Pots |->
                       IF CatchupNeeded(pot_value[i], u.coarse[i])
                         THEN TRUE ELSE u.catchup[i]],
                   !.mode = UI_MODE_NORMAL]
    [] u.mode = UI_MODE_NORMAL ->
         [u EXCEPT !.feat_mode = NextFeature(u.feat_mode),
                   !.lfo = InitAllLfos(u.lfo)]

\* (a slip: every switch is taken for the select switch)
OnSwitchReleased_AnySwitch(u, e) ==
  CASE ReleaseKind(e.data) = "ignored" -> u
    [] ReleaseKind(e.data) = "zoom" -> [u EXCEPT !.mode = UI_MODE_ZOOM]
    [] ReleaseKind(e.data) = "short" -> ShortRelease(u)

\* Ui::OnSwitchReleased (lines 156-188)
OnSwitchReleased(u, e) ==
  IF e.control_id # SWITCH_SELECT THEN u
  ELSE CASE ReleaseKind(e.data) = "ignored" -> u
         [] ReleaseKind(e.data) = "zoom" -> [u EXCEPT !.mode = UI_MODE_ZOOM]
         [] ReleaseKind(e.data) = "short" -> ShortRelease(u)

\* (a slip: every pot event is taken, no catch-up)
CatchupAccepts_Always(data, coarse) == TRUE

\* line 198
CatchupAccepts(data, coarse) == Abs(data - coarse) < kCatchupThreshold

\* (a slip: in the zoom the pot event is committed as well)
OnPotChanged_ZoomCommits(u, e) ==
  CASE u.mode = UI_MODE_SPLASH -> u
    [] u.mode = UI_MODE_ZOOM ->
         [u EXCEPT !.fine[e.control_id] = e.data,
                   !.coarse[e.control_id] = e.data]
    [] u.mode = UI_MODE_NORMAL ->
         IF CatchupAccepts(e.data, u.coarse[e.control_id])
           THEN [u EXCEPT !.coarse[e.control_id] = e.data,
                          !.catchup[e.control_id] = FALSE]
           ELSE u

\* Ui::OnPotChanged (lines 190-204)
OnPotChanged(u, e) ==
  CASE u.mode = UI_MODE_SPLASH -> u
    [] u.mode = UI_MODE_ZOOM ->
         [u EXCEPT !.fine[e.control_id] = e.data]
    [] u.mode = UI_MODE_NORMAL ->
         IF CatchupAccepts(e.data, u.coarse[e.control_id])
           THEN [u EXCEPT !.coarse[e.control_id] = e.data,
                          !.catchup[e.control_id] = FALSE]
           ELSE u

\* lines 209-217: the dispatch of one event
Dispatch(u, e) ==
  IF e.control_type = CONTROL_SWITCH
    THEN IF e.data = 0 THEN OnSwitchPressed(u, e) ELSE OnSwitchReleased(u, e)
    ELSE IF e.control_type = CONTROL_POT THEN OnPotChanged(u, e) ELSE u

\* ------------------------------------------------------------------------
\* History kept for the statements below
\* ------------------------------------------------------------------------
Max(a, b) == IF a > b THEN a ELSE b

GestureIdle ==
  [phase |-> "idle", ev |-> <<>>, t0 |-> 0, first_long |-> 0, max_held |-> 0,
   hold |-> 0]

\* g: the press of one switch as the polls saw it.  t0: the clock at the poll
\* that saw the press; first_long: the elapsed time at the first poll that
\* saw the switch held for more than the long press duration (0: none yet);
\* max_held: the longest elapsed time a poll saw while held; hold: the
\* elapsed time at the poll that saw the release; ev: the events enqueued.
\* The record is kept until the poll after the one that saw the release.
GestureAfter(g, r, now) ==
  IF r.jp
    THEN [phase |-> "held", ev |-> r.events, t0 |-> now, first_long |-> 0,
          max_held |-> 0, hold |-> 0]
  ELSE IF r.pr
    THEN LET el == now - g.t0
         IN  [g EXCEPT !.ev = @ \o r.events,
                       !.first_long = IF @ = 0 /\ el > kLongPressDuration
                                        THEN el ELSE @,
                       !.max_held = Max(@, el)]
  ELSE IF r.rl
    THEN [g EXCEPT !.phase = "released", !.ev = @ \o r.events,
                   !.hold = now - g.t0]
  ELSE GestureIdle

\* turns: changes of a pot reading; steps: oscillator ticks since the last
\* re-initialisation; modes: the modes entered, in order; since: polls since
\* the last Ui::Init; inits: calls of Ui::Init after the first; snap, inside,
\* outside: the oscillators when a re-initialisation began, and per channel
\* the Steps that ran between two of its field writes, and the others.
\* wraps: in the runs of one oscillator alone, the Steps at which the phase
\* accumulator went past 2^32; out: in the runs of the pure functions, the
\* last call, its argument and its result.
NoOut == [fn |-> "none", arg |-> 0, value |-> 0]
HistStart ==
  [turns |-> 0, steps |-> 0, modes |-> <<UI_MODE_SPLASH>>, since |-> 0,
   inits |-> 0, snap |-> <<>>, inside |-> [i \in Lfos |-> 0],
   outside |-> [i \in Lfos |-> 0], wraps |-> 0, out |-> NoOut]

Entered(h, m) == IF m = h.modes[Len(h.modes)] THEN h ELSE
                   [h EXCEPT !.modes = Append(@, m)]

\* last: the event the last step handled, if it was a turn of DoEvents, and
\* the Ui as it was before.
NoUi ==
  [mode |-> "none", feat_mode |-> 0, coarse |-> <<>>, fine |-> <<>>,
   catchup |-> <<>>, lfo |-> <<>>]
NoLast == [e |-> NoEvent, before |-> NoUi]

\* ------------------------------------------------------------------------
\* Operations
\* ------------------------------------------------------------------------
\* Ui::Poll (lines 62-147).  Its inputs are what the hardware shows it: d,
\* the milliseconds gone since the previous poll, lv, the debounced switch
\* levels, and av, the ADC readings of the pots.
Poll(d, lv, av) ==
  /\ ~in_do_events
  /\ init_pc = 0
  /\ clock' = clock + d
  /\ adc' = av
  /\ hist.turns + (IF av = adc THEN 0 ELSE 1) <= MaxTurns
  /\ hist' = Entered([hist EXCEPT !.turns = @ + (IF av = adc THEN 0 ELSE 1),
                                  !.since = @ + 1],
                     PaintMode(mode, animation_counter + 1))
  /\ LET now == clock + d
         sw == [i \in Switches |->
                  SwitchPoll(i, now, sw_down[i], lv[i], press_time[i],
                             detect_very_long_press[i])]
         pt == [i \in Pots |->
                  PotPoll(i, av[i], pot_filtered_value[i], pot_value[i])]
         added == ConcatTo([i \in Switches |-> sw[i].events], kNumSwitches - 1)
                  \o ConcatTo([i \in Pots |-> pt[i].events], kNumPots - 1)
     IN  /\ Len(queue) + Len(added) <= MaxQueue
         /\ queue' = queue \o added
         /\ press_time' = [i \in Switches |-> sw[i].press_time]
         /\ detect_very_long_press' = [i \in Switches |-> sw[i].detect]
         /\ pot_filtered_value' = [i \in Pots |-> pt[i].filtered]
         /\ pot_value' = [i \in Pots |-> pt[i].value]
         /\ gesture' = [i \in Switches |-> GestureAfter(gesture[i], sw[i], now)]
  /\ animation_counter' = animation_counter + 1
  /\ mode' = PaintMode(mode, animation_counter + 1)
  /\ sw_down' = lv
  /\ last' = NoLast
  /\ UNCHANGED <<feat_mode, pot_coarse_value, pot_fine_value,
                 catchup_state, in_do_events, lfo, init_pc>>

\* Ui::FlushEvents (lines 149-151)
FlushEvents ==
  /\ ~in_do_events
  /\ init_pc = 0
  /\ queue # <<>>
  /\ queue' = <<>>
  /\ last' = NoLast
  /\ UNCHANGED <<clock, sw_down, adc, mode, feat_mode, animation_counter,
                 press_time, detect_very_long_press, pot_value,
                 pot_filtered_value, pot_coarse_value, pot_fine_value,
                 catchup_state, in_do_events, lfo, init_pc, gesture, hist>>

\* Ui::DoEvents (lines 206-222): one turn of its while loop, which pulls and
\* dispatches one event; no other operation runs until the queue is empty.
DoEvents ==
  /\ init_pc = 0
  /\ queue # <<>>
  /\ LET e == Head(queue)
         u == Dispatch(UiNow, e)
     IN  /\ queue' = Tail(queue)
         /\ in_do_events' = (Tail(queue) # <<>>)
         /\ last' = [e |-> e, before |-> UiNow]
         /\ mode' = u.mode
         /\ feat_mode' = u.feat_mode
         /\ pot_coarse_value' = u.coarse
         /\ pot_fine_value' = u.fine
         /\ catchup_state' = u.catchup
         /\ lfo' = u.lfo
         /\ hist' = Entered(IF u.feat_mode # feat_mode
                               THEN [hist EXCEPT !.steps = 0] ELSE hist,
                             u.mode)
  /\ UNCHANGED <<clock, sw_down, adc, animation_counter, press_time,
                 detect_very_long_press, pot_value, pot_filtered_value,
                 init_pc, gesture>>

\* One tick of the oscillator-rate context: Lfo::Step on every channel.
StepAll ==
  /\ init_pc = 0
  /\ ~in_do_events
  /\ hist.steps < MaxLfoSteps
  /\ lfo' = [i \in Lfos |-> LfoStep(lfo[i])]
  /\ hist' = [hist EXCEPT !.steps = @ + 1]
  /\ last' = NoLast
  /\ UNCHANGED <<clock, sw_down, adc, mode, feat_mode, animation_counter,
                 press_time, detect_very_long_press, pot_value,
                 pot_filtered_value, pot_coarse_value, pot_fine_value,
                 catchup_state, queue, in_do_events, init_pc, gesture>>

\* ------------------------------------------------------------------------
\* The panel: specification Spec
\* ------------------------------------------------------------------------
\* The state after Ui::Init: at clock c0, with the pots at adc0, the
\* animation counter at cnt (0 at power-up) and the oscillators at lfo0.
InitWith(c0, cnt, adc0, lfo0) ==
  /\ clock = c0
  /\ sw_down = [i \in Switches |-> FALSE]
  /\ adc = adc0
  /\ mode = UI_MODE_SPLASH
  /\ feat_mode = FEAT_MODE_FREE
  /\ animation_counter = cnt
  /\ press_time = [i \in Switches |-> 0]
  /\ detect_very_long_press = [i \in Switches |-> FALSE]
  /\ pot_value = adc0
  /\ pot_filtered_value = adc0
  /\ pot_coarse_value = adc0
  /\ pot_fine_value = [i \in Pots |-> kFineCenter]
  /\ catchup_state = [i \in Pots |-> FALSE]
  /\ queue = <<>>
  /\ in_do_events = FALSE
  /\ lfo = lfo0
  /\ init_pc = 0
  /\ gesture = [i \in Switches |-> GestureIdle]
  /\ last = NoLast
  /\ hist = HistStart

\* Switch levels with only the switches of S operated.
SwitchInputs(S) ==
  {lv \in [Switches -> BOOLEAN] : \A i \in Switches \ S : ~lv[i]}

\* The pots at rest, at mid travel.
AdcRest == [i \in Pots |-> 32768]

\* The counter when a run starts: power-up, or late in the splash.
StartCounters == {0, SplashIdle}
PollBudget ==
  \E c0 \in StartCounters :
    animation_counter >= c0 /\ animation_counter < c0 + MaxPolls

PollGaps == {1, 501}

Init ==
  \E cnt \in StartCounters :
    InitWith(1, cnt, AdcRest, [i \in Lfos |-> LfoFresh])

\* A poll of the panel with the select switch operated and the pots at rest.
PollPanel ==
  /\ PollBudget
  /\ \E d \in PollGaps, lv \in SwitchInputs({SWITCH_SELECT}) :
       clock + d <= MaxPanelClock /\ Poll(d, lv, adc)

Next ==
  \/ PollPanel
  \/ DoEvents
  \/ FlushEvents
  \/ StepAll

Spec == Init /\ [][Next]_vars

\* ------------------------------------------------------------------------
\* The panel with pot 0 turned: specification SpecPot
\* ------------------------------------------------------------------------
\* Pot 0 is turned to either end of its travel; the others stay at rest.
AdcLevels == {0, 65535}
AdcInputs == {adc} \cup {[adc EXCEPT ![0] = v] : v \in AdcLevels}

InitPot == InitWith(1, SplashIdle, AdcRest, [i \in Lfos |-> LfoFresh])

PollPot ==
  /\ PollBudget
  /\ \E d \in PollGaps, lv \in SwitchInputs({SWITCH_SELECT}), av \in AdcInputs :
       clock + d <= MaxPanelClock /\ Poll(d, lv, av)

NextPot ==
  \/ PollPot
  \/ DoEvents

SpecPot == InitPot /\ [][NextPot]_vars

\* ------------------------------------------------------------------------
\* Switch gestures: specification SpecSwitch
\* ------------------------------------------------------------------------
\* Two switches are operated, one at a time, with polls 1, 499 or 1500 ms
\* apart, from a clock that starts just before it wraps to 0, or just after.
StartClocks == {-1, 1}
SwitchGaps == {1, 499, 1500}
GestureSwitches == {SWITCH_SELECT, SWITCH_SYNC}
OneAtATime(lv) ==
  \A i, j \in Switches : (i # j /\ lv[i]) => (~lv[j] /\ ~sw_down[j])

InitSwitch ==
  \E c0 \in StartClocks :
    InitWith(c0, 0, AdcRest, [i \in Lfos |-> LfoFresh])

PollSwitch ==
  /\ animation_counter < MaxSwitchPolls
  /\ \E d \in SwitchGaps, lv \in SwitchInputs(GestureSwitches) :
       clock + d <= MaxClock /\ OneAtATime(lv) /\ Poll(d, lv, adc)

NextSwitch ==
  \/ PollSwitch
  \/ DoEvents

SpecSwitch == InitSwitch /\ [][NextSwitch]_vars

\* ------------------------------------------------------------------------
\* The splash: specification SpecSplash
\* ------------------------------------------------------------------------
\* Ui::Init (lines 45-60), called again on a running panel.  It writes
\* neither animation_counter_ (file scope, line 43) nor press_time_,
\* detect_very_long_press_ or the queue; switches_.Init() puts every switch
\* up.
UiInit ==
  /\ ~in_do_events
  /\ init_pc = 0
  /\ hist.inits < MaxInits
  /\ mode' = UI_MODE_SPLASH
  /\ feat_mode' = FEAT_MODE_FREE
  /\ sw_down' = [i \in Switches |-> FALSE]
  /\ pot_value' = adc
  /\ pot_filtered_value' = adc
  /\ pot_coarse_value' = adc
  /\ pot_fine_value' = [i \in Pots |-> kFineCenter]
  /\ catchup_state' = [i \in Pots |-> FALSE]
  /\ hist' = [hist EXCEPT !.inits = @ + 1, !.since = 0,
                          !.modes = <<UI_MODE_SPLASH>>]
  /\ last' = NoLast
  /\ UNCHANGED <<clock, adc, animation_counter, press_time,
                 detect_very_long_press, queue, in_do_events, lfo, init_pc,
                 gesture>>

InitSplash == InitWith(1, 0, AdcRest, [i \in Lfos |-> LfoFresh])

\* A poll 1 ms after the last, no switch touched, no pot turned.
PollIdle ==
  /\ animation_counter < MaxSplashPolls
  /\ Poll(1, [i \in Switches |-> FALSE], adc)

NextSplash ==
  \/ PollIdle
  \/ UiInit

SpecSplash == InitSplash /\ [][NextSplash]_vars

\* ------------------------------------------------------------------------
\* Re-initialisation against the oscillator tick: specification SpecLfo
\* ------------------------------------------------------------------------
\* The oscillator-rate context interrupts the Ui between any two statements;
\* its Step runs to the end.  The feature advance (lines 179-183) is taken
\* write by write: init_pc = 0 outside it, k in 1 .. 28 when the next write
\* is assignment ((k - 1) % 7) + 1 of Lfo::Init on channel (k - 1) \div 7,
\* and 29 when the loop of line 181 has ended.
InitWrites == Len(LfoInitOrder)
InitEnd == kNumLfos * InitWrites + 1
InitChannel(k) == (k - 1) \div InitWrites
InitField(k) == ((k - 1) % InitWrites) + 1

\* DoEvents on an event that does not advance the feature.
DoEventsOther ==
  /\ DoEvents
  /\ feat_mode' = feat_mode

\* DoEvents on a short select release in NORMAL: line 180, then the loop.
BeginAdvance ==
  /\ init_pc = 0
  /\ queue # <<>>
  /\ LET e == Head(queue)
         u == Dispatch(UiNow, e)
     IN  /\ u.feat_mode # feat_mode
         /\ queue' = Tail(queue)
         /\ last' = [e |-> e, before |-> UiNow]
         /\ feat_mode' = u.feat_mode
         /\ hist' = [hist EXCEPT !.snap = lfo]
  /\ init_pc' = 1
  /\ in_do_events' = TRUE
  /\ UNCHANGED <<clock, sw_down, adc, mode, animation_counter, press_time,
                 detect_very_long_press, pot_value, pot_filtered_value,
                 pot_coarse_value, pot_fine_value, catchup_state, lfo,
                 gesture>>

\* One assignment of Lfo::Init (lines 267-273) in the loop of line 181.
InitWrite ==
  /\ init_pc >= 1
  /\ init_pc < InitEnd
  /\ lfo' = [lfo EXCEPT ![InitChannel(init_pc)] =
                           LfoInitWrite(@, InitField(init_pc))]
  /\ init_pc' = init_pc + 1
  /\ UNCHANGED <<clock, sw_down, adc, mode, feat_mode, animation_counter,
                 press_time, detect_very_long_press, pot_value,
                 pot_filtered_value, pot_coarse_value, pot_fine_value,
                 catchup_state, queue, in_do_events, gesture, last, hist>>

\* Step of channel c falls between two writes of the Init of channel c.
InsideInit(c) ==
  /\ init_pc >= 1
  /\ init_pc < InitEnd
  /\ InitChannel(init_pc) = c
  /\ InitField(init_pc) > 1

\* Lfo::Step on channel c, from the oscillator-rate context.
StepOne(c) ==
  /\ init_pc < InitEnd
  /\ hist.steps < MaxLfoSteps
  /\ lfo' = [lfo EXCEPT ![c] = LfoStep(@)]
  /\ hist' = [hist EXCEPT !.steps = @ + 1,
                          !.inside[c] = @ + (IF InsideInit(c) THEN 1 ELSE 0),
                          !.outside[c] = @ + (IF init_pc >= 1 /\ ~InsideInit(c)
                                                THEN 1 ELSE 0)]
  /\ UNCHANGED <<clock, sw_down, adc, mode, feat_mode, animation_counter,
                 press_time, detect_very_long_press, pot_value,
                 pot_filtered_value, pot_coarse_value, pot_fine_value,
                 catchup_state, queue, in_do_events, init_pc, gesture, last>>

InitLfo == InitWith(1, SplashIdle, AdcRest, [i \in Lfos |-> LfoFresh])

PollLfo ==
  /\ animation_counter < SplashIdle + MaxLfoPolls
  /\ \E lv \in SwitchInputs({SWITCH_SELECT}) : Poll(1, lv, adc)

StepAny == \E c \in Lfos : StepOne(c)

NextLfo ==
  \/ PollLfo
  \/ DoEventsOther
  \/ BeginAdvance
  \/ InitWrite
  \/ StepAny

SpecLfo == InitLfo /\ [][NextLfo]_vars

\* ------------------------------------------------------------------------
\* One oscillator alone: specification SpecStep
\* ------------------------------------------------------------------------
\* Oscillator 0 is given a phase increment and a divider by its owner, with
\* the phase and the divider count at 0, and is stepped; nothing else runs.
\* The increments: the one of Lfo::Init, 0x60000000, 0x80000000, 0xFFFFFFFF.
StepIncrements == {U32Max_Shr8, <<24576, 0>>, <<32768, 0>>, UINT32_MAX}

InitStep ==
  \E inc \in StepIncrements, d \in 1 .. MaxDivider :
    InitWith(1, 0, AdcRest,
             [i \in Lfos |-> IF i = 0 THEN LfoRunning(U32Zero, inc, d, 0)
                                      ELSE LfoFresh])

\* Lfo::Step on oscillator 0
StepAlone ==
  /\ hist.steps < MaxStepCalls
  /\ lfo' = [lfo EXCEPT ![0] = LfoStep(@)]
  /\ hist' = [hist EXCEPT
                !.steps = @ + 1,
                !.wraps = @ + (IF U32Carry(lfo[0].phase,
                                           lfo[0].phase_increment)
                                 THEN 1 ELSE 0)]
  /\ UNCHANGED <<clock, sw_down, adc, mode, feat_mode, animation_counter,
                 press_time, detect_very_long_press, pot_value,
                 pot_filtered_value, pot_coarse_value, pot_fine_value,
                 catchup_state, queue, in_do_events, init_pc, gesture, last>>

NextStep == StepAlone

SpecStep == InitStep /\ [][NextStep]_vars

\* ------------------------------------------------------------------------
\* The waveforms (lines 304-397), in the lowest band
\* ------------------------------------------------------------------------
\* Only the band divided_pitch_ <= kPitch1Hz is modelled, where the sample is
\* the closed form of the phase; the other bands read wavetables.
SHAPE_TRIANGLE == "SHAPE_TRIANGLE"
SHAPE_SAW == "SHAPE_SAW"
SHAPE_RAMP == "SHAPE_RAMP"
SHAPE_TRAPEZOID == "SHAPE_TRAPEZOID"
LfoShapes == {SHAPE_TRIANGLE, SHAPE_SAW, SHAPE_RAMP, SHAPE_TRAPEZOID}

INT16_MIN == -32768
INT16_MAX == 32767

\* conversion to int16_t: the value modulo 2^16
ToInt16(x) == ((x - INT16_MIN) % W16) + INT16_MIN

\* lines 320, 326, 354, 376
SamplePhase(l) == U32Add(l.initial_phase, l.divided_phase)

\* phase >> 16 and phase >> 15
Shr16(ph) == ph[1]
Shr15(ph) == 2 * ph[1] + (ph[2] \div 32768)

\* x * level_ >> 16, returned as int16_t (lines 346, 372, 396)
Scaled(x, level) == ToInt16((x * level) \div W16)

\* line 355, before the conversion to int16_t
RampClosedForm(ph) == -32678 + Shr16(ph)

\* Lfo::ComputeSampleRamp (lines 353-373)
ComputeSampleRamp(l) ==
  LET ramp == ToInt16(RampClosedForm(SamplePhase(l)))
  IN  Scaled(ramp, l.level)

\* Lfo::ComputeSampleSaw (lines 349-351)
ComputeSampleSaw(l) == ToInt16(-ComputeSampleRamp(l))

\* lines 327-329 and 377
TriClosedForm(ph) ==
  ToInt16(IF ph[1] < 32768 THEN INT16_MIN + Shr15(ph)
                           ELSE INT16_MAX - Shr15(ph))

\* Lfo::ComputeSampleTriangle (lines 325-347)
ComputeSampleTriangle(l) == Scaled(TriClosedForm(SamplePhase(l)), l.level)

\* CONSTRAIN (line 379)
Constrain(x, lo, hi) == IF x < lo THEN lo ELSE IF x > hi THEN hi ELSE x

\* Lfo::ComputeSampleTrapezoid (lines 375-397)
ComputeSampleTrapezoid(l) ==
  LET trap == Constrain(TriClosedForm(SamplePhase(l)) * 2, INT16_MIN, INT16_MAX)
  IN  Scaled(ToInt16(trap), l.level)

\* the switch of lines 306-316
ShapeSwitch(s, l) ==
  CASE s = SHAPE_TRIANGLE -> ComputeSampleTriangle(l)
    [] s = SHAPE_SAW -> ComputeSampleSaw(l)
    [] s = SHAPE_RAMP -> ComputeSampleRamp(l)
    [] s = SHAPE_TRAPEZOID -> ComputeSampleTrapezoid(l)
    [] OTHER -> 0

\* Lfo::ComputeSampleShape (lines 304-317): line 305 overwrites s
ComputeSampleShape(s, l) == ShapeSwitch(SHAPE_SAW, l)

\* ------------------------------------------------------------------------
\* The waveforms: specification SpecSample
\* ------------------------------------------------------------------------
\* Oscillator 0 stands at some phase, with divider 1 and the level of
\* Lfo::Init, and its sample is computed.  The phases: bits 16-31 from
\* SampleHighs, bits 0-15 all 0 or all 1.
SampleHighs ==
  {0, 1, 89, 90, 91, 16384, 32767, 32768, 49152, 65445, 65446, 65447, 65535}
SampleLows == {0, 65535}

LfoAt(ph) == LfoRunning(ph, U32Max_Shr8, 1, 0)

InitSample ==
  \E h \in SampleHighs, lo \in SampleLows :
    InitWith(1, 0, AdcRest,
             [i \in Lfos |-> IF i = 0 THEN LfoAt(<<h, lo>>) ELSE LfoFresh])

Returned(fn, arg, value) ==
  /\ hist' = [hist EXCEPT !.out = [fn |-> fn, arg |-> arg, value |-> value]]
  /\ UNCHANGED <<clock, sw_down, adc, mode, feat_mode, animation_counter,
                 press_time, detect_very_long_press, pot_value,
                 pot_filtered_value, pot_coarse_value, pot_fine_value,
                 catchup_state, queue, in_do_events, lfo, init_pc, gesture,
                 last>>

CallShape ==
  /\ init_pc = 0
  /\ \E s \in LfoShapes :
       Returned("ComputeSampleShape", s, ComputeSampleShape(s, lfo[0]))

CallRamp ==
  /\ init_pc = 0
  /\ Returned("ComputeSampleRamp", 0, ComputeSampleRamp(lfo[0]))

NextSample ==
  \/ CallShape
  \/ CallRamp

SpecSample == InitSample /\ [][NextSample]_vars

\* ------------------------------------------------------------------------
\* Lfo::ComputePhaseIncrement (lines 284-302)
\* ------------------------------------------------------------------------
\* One octave of pitch.  kOctave is defined outside this file; the value is
\* a choice of the model, 12 semitones of 128.
kOctave == 1536

\* lines 286-294: the pitch brought into [0, kOctave) and the octaves counted
RECURSIVE NormalisePitch(_, _)
NormalisePitch(pitch, num_shifts) ==
  IF pitch < 0 THEN NormalisePitch(pitch + kOctave, num_shifts - 1)
  ELSE IF pitch >= kOctave THEN NormalisePitch(pitch - kOctave, num_shifts + 1)
  ELSE <<pitch, num_shifts>>

NumShifts(pitch) == NormalisePitch(pitch, 0)[2]

\* lut_increments is data of the build; two contents stand for it, one
\* rising with the index and one falling, all entries below 2^22.
LutTables == {"rising", "falling"}
lut_increments(t, i) ==
  IF t = "rising" THEN 1000001 + 6007 * i ELSE 3000001 - 6007 * i

\* line 298 in uint32_t: a + ((b - a) * frac >> 4), for a, b < 2^22 and
\* frac < 16.  When b < a, b - a is 2^32 - (a - b), the product is
\* 2^32 - (a - b) * frac, and the shift leaves 2^28 - ceil((a - b) * frac / 16).
Interpolate(a, b, frac) ==
  IF b >= a \/ frac = 0 THEN a + (((b - a) * frac) \div 16)
  ELSE a + 268435456 - (((a - b) * frac + 15) \div 16)

\* a value below 2^31 as uint32_t
U32Of(x) == <<x \div W16, x % W16>>

Shl1(x) == U32Add(x, x)
Shr1(x) == <<x[1] \div 2, (x[1] % 2) * 32768 + (x[2] \div 2)>>

RECURSIVE Shl(_, _)
Shl(x, n) == IF n = 0 THEN x ELSE Shl(Shl1(x), n - 1)
RECURSIVE Shr(_, _)
Shr(x, n) == IF n = 0 THEN x ELSE Shr(Shr1(x), n - 1)

\* lines 299-301 with the right shift left out
ShiftIncrement_LeftOnly(inc, num_shifts) ==
  IF num_shifts >= 0 THEN Shl(inc, num_shifts) ELSE inc

\* lines 299-301
ShiftIncrement(inc, num_shifts) ==
  IF num_shifts >= 0 THEN Shl(inc, num_shifts) ELSE Shr(inc, -num_shifts)

\* lines 296-298
BaseIncrement(t, pitch) ==
  LET a == lut_increments(t, pitch \div 16)
      b == lut_increments(t, (pitch \div 16) + 1)
  IN  U32Of(Interpolate(a, b, pitch % 16))

\* Lfo::ComputePhaseIncrement with the table t
ComputePhaseIncrement(t, pitch) ==
  LET n == NormalisePitch(pitch, 0)
  IN  ShiftIncrement(BaseIncrement(t, n[1]), n[2])

\* ------------------------------------------------------------------------
\* The pitch response: specification SpecPitch
\* ------------------------------------------------------------------------
\* One call of ComputePhaseIncrement, with any table and any pitch of the
\* range.
MinPitch == -(OctavesDown * kOctave)
MaxPitch == OctavesUp * kOctave - 1

CallIncrement ==
  /\ hist.out.fn = "none"
  /\ \E t \in LutTables, pitch \in MinPitch .. MaxPitch :
       Returned("ComputePhaseIncrement", <<t, pitch>>,
                ComputePhaseIncrement(t, pitch))

InitPitch == InitWith(1, 0, AdcRest, [i \in Lfos |-> LfoFresh])

NextPitch == CallIncrement

SpecPitch == InitPitch /\ [][NextPitch]_vars

\* ------------------------------------------------------------------------
\* The handlers on a running instrument: SpecFrame and SpecSwitchRun
\* ------------------------------------------------------------------------
\* The oscillators have been stepped since their Init, so that a
\* re-initialisation shows.  SpecFrame is the panel with pot 0 turned, from
\* power-up; SpecSwitchRun is the switch gestures.
LfoStepped == LfoStep(LfoFresh)

InitFrame == InitWith(1, 0, AdcRest, [i \in Lfos |-> LfoStepped])

SpecFrame == InitFrame /\ [][NextPot]_vars

InitSwitchRun ==
  \E c0 \in StartClocks :
    InitWith(c0, 0, AdcRest, [i \in Lfos |-> LfoStepped])

SpecSwitchRun == InitSwitchRun /\ [][NextSwitch]_vars

\* ------------------------------------------------------------------------
\* Statements on the switch gestures (SpecSwitch)
\* ------------------------------------------------------------------------
Data(ev) == [k \in 1 .. Len(ev) |-> ev[k].data]
Sites(ev) == [k \in 1 .. Len(ev) |-> ev[k].site]
IsPrefix(a, b) == Len(a) <= Len(b) /\ \A k \in 1 .. Len(a) : a[k] = b[k]

\* The press of switch i was seen released after a hold of more than 500 and
\* at most 2000 ms, and a poll saw it held for more than 500 ms.
LongGestureDone(i) ==
  /\ gesture[i].phase = "released"
  /\ gesture[i].first_long > 0
  /\ gesture[i].hold <= kVeryLongPressDuration

\* C1, as stated: a press held for more than 500 and at most 2000 ms, polled
\* in that range, then released, enqueues exactly press (0), long press (the
\* elapsed time at the first poll above 500) and release (hold time + 1).
\* Stated for the presses seen at a clock other than 0, whose press_time_ is
\* not mistaken for "no press".
C1_PressLongRelease ==
  \A i \in Switches :
    (LongGestureDone(i) /\ gesture[i].t0 # 0) =>
      Data(gesture[i].ev) = <<0, gesture[i].first_long, gesture[i].hold + 1>>

\* C1, amended: such a press enqueues exactly two events, the press event
\* (data 0) and one long-press event (data = the elapsed time at the first
\* poll that sees more than 500 ms); no release event is enqueued.
C1_PressLongOnly ==
  \A i \in Switches :
    LongGestureDone(i) =>
      gesture[i].ev =
        << Event(CONTROL_SWITCH, i, 0, "press"),
           Event(CONTROL_SWITCH, i, gesture[i].first_long, "long") >>

C1_Witness ==
  \E i \in Switches :
    /\ LongGestureDone(i)
    /\ gesture[i].hold > gesture[i].first_long
    /\ Len(gesture[i].ev) = 2

\* C2, as stated: a press held for more than 2000 ms enqueues a press, one
\* long press and one very long press and nothing more, however long it
\* stays held, and no release event.
C2_ThreeEventsOnly ==
  \A i \in Switches :
    gesture[i].max_held > kVeryLongPressDuration \/
    (gesture[i].phase = "released" /\ gesture[i].hold > kVeryLongPressDuration)
    => IsPrefix(Sites(gesture[i].ev), <<"press", "long", "very_long">>)

\* C3, as stated: whatever the clock at the press, a press released before
\* any poll saw more than 500 ms enqueues exactly a press event (data 0) and
\* a release event with data = release time - press time + 1, never 0.
C3_PressRelease ==
  \A i \in Switches :
    (gesture[i].phase = "released" /\ gesture[i].first_long = 0) =>
      /\ gesture[i].ev =
           << Event(CONTROL_SWITCH, i, 0, "press"),
              Event(CONTROL_SWITCH, i, gesture[i].hold + 1, "release") >>
      /\ gesture[i].hold + 1 # 0

\* ------------------------------------------------------------------------
\* Statements on the mode state machine (Spec, SpecPot)
\* ------------------------------------------------------------------------
\* This step is a turn of DoEvents, handling the event at the head.
DoEventsStep == queue # <<>> /\ queue' = Tail(queue) /\ last'.e = Head(queue)
\* This step is a Poll.
PollStep == animation_counter' = animation_counter + 1

IsSelect(e) == e.control_type = CONTROL_SWITCH /\ e.control_id = SWITCH_SELECT
\* a select event of at most 500 ms that is not a press event
IsShortSelect(e) ==
  IsSelect(e) /\ e.data # 0 /\ e.data <= kLongPressDuration
IsZoomSelect(e) ==
  IsSelect(e) /\ e.data > kLongPressDuration
              /\ e.data <= kVeryLongPressDuration
IsPot(e) == e.control_type = CONTROL_POT

\* C4: the catch-up protocol.  When a short select release takes the mode from
\* ZOOM to NORMAL, every pot whose last reported value differs from its
\* coarse value by more than 1024 gets catchup_pending; from then on, in
\* NORMAL, a pot event of a pending pot whose value is not within the
\* threshold of the coarse value (differs by 1024 or more) leaves the coarse
\* value and the flag as they are, and one within it (differs by less than
\* 1024) sets the coarse value to the event's value and clears the flag.
C4_CatchUp ==
  [][DoEventsStep =>
       LET e == Head(queue)
           i == e.control_id
       IN  /\ (IsShortSelect(e) /\ mode = UI_MODE_ZOOM) =>
                 /\ mode' = UI_MODE_NORMAL
                 /\ \A p \in Pots :
                      Abs(pot_value[p] - pot_coarse_value[p]) > kCatchupThreshold
                        => catchup_state'[p]
           /\ (IsPot(e) /\ mode = UI_MODE_NORMAL /\ catchup_state[i]
                 /\ Abs(e.data - pot_coarse_value[i]) >= kCatchupThreshold) =>
                 /\ pot_coarse_value'[i] = pot_coarse_value[i]
                 /\ catchup_state'[i]
           /\ (IsPot(e) /\ mode = UI_MODE_NORMAL /\ catchup_state[i]
                 /\ Abs(e.data - pot_coarse_value[i]) < kCatchupThreshold) =>
                 /\ pot_coarse_value'[i] = e.data
                 /\ ~catchup_state'[i]
           /\ (mode = UI_MODE_NORMAL /\ mode' = UI_MODE_NORMAL) =>
                 \A p \in Pots :
                   (catchup_state[p] /\ ~(IsPot(e) /\ p = i)) => catchup_state'[p]
    ]_vars

\* A pending pot has caught up: the pot event just handled in NORMAL cleared
\* its flag and set its coarse value, which had been held since the zoom.
C4_Witness ==
  /\ IsPot(last.e)
  /\ last.before.mode = UI_MODE_NORMAL
  /\ last.before.catchup[last.e.control_id]
  /\ ~catchup_state[last.e.control_id]
  /\ pot_coarse_value[last.e.control_id] = last.e.data
  /\ last.before.coarse[last.e.control_id] # last.e.data

\* C5, as stated: in SPLASH no event handled by DoEvents changes the mode;
\* the mode leaves SPLASH only for NORMAL, and only by a Poll.
C5_SplashLeftByPollOnly ==
  [][mode = UI_MODE_SPLASH =>
       \/ mode' = UI_MODE_SPLASH
       \/ (mode' = UI_MODE_NORMAL /\ PollStep /\ ~DoEventsStep)]_vars

LfoInitState ==
  [phase |-> <<0, 0>>, divided_phase |-> <<0, 0>>, initial_phase |-> <<0, 0>>,
   phase_increment |-> <<255, 65535>>, divider |-> 1, divider_count |-> 0,
   level |-> 65535]

\* C7: the feature mode changes only when DoEvents handles a select release of
\* at most 500 ms in NORMAL; that step sets it to the next feature, the last
\* one wrapping to the first, leaves all 4 oscillators as Lfo::Init leaves
\* them and the mode NORMAL.  The feature mode is always a defined feature.
C7_FeatureAdvance ==
  /\ [][/\ feat_mode' # feat_mode =>
             (DoEventsStep /\ IsShortSelect(Head(queue))
                /\ mode = UI_MODE_NORMAL)
        /\ (DoEventsStep /\ IsShortSelect(Head(queue))
              /\ mode = UI_MODE_NORMAL) =>
             /\ feat_mode' = IF feat_mode = FEAT_MODE_LAST - 1
                               THEN FEAT_MODE_FREE ELSE feat_mode + 1
             /\ \A i \in Lfos : lfo'[i] = LfoInitState
             /\ mode' = UI_MODE_NORMAL
       ]_vars
  /\ [](feat_mode \in 0 .. (FEAT_MODE_LAST - 1))

\* The last feature wrapped to the first, and running oscillators were
\* re-initialised.
C7_Witness ==
  /\ IsShortSelect(last.e)
  /\ last.before.mode = UI_MODE_NORMAL
  /\ last.before.feat_mode = FEAT_MODE_LAST - 1
  /\ feat_mode = FEAT_MODE_FREE
  /\ \A i \in Lfos : last.before.lfo[i] # LfoInitState /\ lfo[i] = LfoInitState

\* C10: once the mode has left SPLASH, no Poll, DoEvents or FlushEvents
\* brings it back: it stays ZOOM or NORMAL (each is entered from the other,
\* see the witness).
C10_SplashNeverAgain ==
  [][mode # UI_MODE_SPLASH => mode' \in {UI_MODE_ZOOM, UI_MODE_NORMAL}]_vars

\* The mode left SPLASH for NORMAL, went on to ZOOM and came back to NORMAL.
C10_Witness ==
  /\ mode = UI_MODE_NORMAL
  /\ hist.modes =
       <<UI_MODE_SPLASH, UI_MODE_NORMAL, UI_MODE_ZOOM, UI_MODE_NORMAL>>

\* ------------------------------------------------------------------------
\* Statements on the re-initialisation and the splash (SpecLfo, SpecSplash)
\* ------------------------------------------------------------------------
\* C8, as stated: the re-initialisation of an oscillator is atomic for the
\* oscillator tick.  If exactly one Step of a channel ran, between two field
\* writes of its Lfo::Init, then once the feature advance has ended the
\* oscillator is as after Init then Step, or as after Step then Init.
C8_InitAtomic ==
  init_pc = InitEnd =>
    \A c \in Lfos :
      (hist.inside[c] = 1 /\ hist.outside[c] = 0) =>
        \/ lfo[c] = LfoStep(LfoInit(hist.snap[c]))
        \/ lfo[c] = LfoInit(LfoStep(hist.snap[c]))

\* The polls Ui::Init's splash lasts at power-up: 9 periods of 64.
SplashPolls == kSplashPeriod * (kSplashCycles + 1)

\* C9, as stated: after every call of Ui::Init, with no switch touched, the
\* mode is SPLASH for the same number of polls, then NORMAL.
C9_SplashLength ==
  /\ mode = UI_MODE_SPLASH => hist.since < SplashPolls
  /\ mode # UI_MODE_SPLASH => hist.since >= SplashPolls

\* ------------------------------------------------------------------------
\* The pot filter: specification SpecFilter
\* ------------------------------------------------------------------------
\* Pot 0 is turned to an end of its travel or back to the middle, no switch
\* is touched, and a poll comes every millisecond.
FilterLevels == {0, 32768, 65535}
FilterInputs == {adc} \cup {[adc EXCEPT ![0] = v] : v \in FilterLevels}

PollFilter ==
  /\ PollBudget
  /\ \E av \in FilterInputs : Poll(1, [i \in Switches |-> FALSE], av)

NextFilter ==
  \/ PollFilter
  \/ DoEvents

SpecFilter == InitPot /\ [][NextFilter]_vars

\* ------------------------------------------------------------------------
\* Statements on the pot filter (SpecFilter)
\* ------------------------------------------------------------------------
\* The events this step appended to the queue.
Enqueued == SubSeq(queue', Len(queue) + 1, Len(queue'))

\* The pot events among them that come from pot i.
PotEventsOf(i) ==
  SelectSeq(Enqueued, LAMBDA e : IsPot(e) /\ e.control_id = i)

\* (31 * old + sample) / 32, rounded down
Smoothed(i) == (31 * pot_filtered_value[i] + adc'[i]) \div 32

\* C11: at every Poll and for every pot, a pot motion event is enqueued if
\* and only if the new smoothed value differs from the quantized value by at
\* least 64, upwards or downwards; that event carries the smoothed value and
\* the quantized value becomes it, and otherwise the quantized value stays.
\* In every state the smoothed and the quantized value differ by less than
\* 64.
C11_PotMotion ==
  /\ [](\A i \in Pots :
          Abs(pot_filtered_value[i] - pot_value[i]) < kPotMoveThreshold)
  /\ [][PollStep =>
          \A i \in Pots :
            /\ pot_filtered_value'[i] = Smoothed(i)
            /\ IF Abs(Smoothed(i) - pot_value[i]) >= kPotMoveThreshold
                 THEN /\ Len(PotEventsOf(i)) = 1
                      /\ PotEventsOf(i)[1].data = Smoothed(i)
                      /\ pot_value'[i] = Smoothed(i)
                 ELSE /\ PotEventsOf(i) = <<>>
                      /\ pot_value'[i] = pot_value[i]
       ]_vars

\* Pot 0 was turned down and a poll reported it, the event is still queued;
\* then the pot came back and the last poll smoothed a motion of less than 64
\* away without an event.
C11_Witness ==
  /\ pot_value[0] < kFineCenter
  /\ pot_filtered_value[0] > pot_value[0]
  /\ \E k \in 1 .. Len(queue) :
       /\ IsPot(queue[k])
       /\ queue[k].control_id = 0
       /\ queue[k].data = pot_value[0]

\* ------------------------------------------------------------------------
\* Statements on Lfo::Step (SpecStep)
\* ------------------------------------------------------------------------
\* C12: with a fixed increment I, after N Steps from phase 0 the phase is
\* (N * I) mod 2^32, whatever the divider.
C12_PhaseAccumulates ==
  lfo[0].phase = U32MulSmall(lfo[0].phase_increment, hist.steps)

\* Several Steps and two wraps on, with a divider of 3.
C12_Witness ==
  /\ hist.steps >= 5
  /\ hist.wraps >= 2
  /\ lfo[0].divider = 3
  /\ lfo[0].phase = U32MulSmall(lfo[0].phase_increment, hist.steps)

\* phase / divider + UINT32_MAX / divider * divider_count, high limb not
\* reduced: below W16 when the sum fits 32 bits.
DividedHigh(l) ==
  LET a == U32DivSmall(l.phase, l.divider)
      b == U32MulSmall(U32DivSmall(UINT32_MAX, l.divider), l.divider_count)
  IN  a[1] + b[1] + ((a[2] + b[2]) \div W16)

\* C13: with a constant divider D and a constant increment, from a divider
\* count of 0: the count stays below D and is the number of wraps of the
\* phase accumulator modulo D, so it is back at 0 once every D wraps; the sum
\* for divided_phase fits 32 bits; and from one Step to the next
\* divided_phase does not decrease, except at a Step where the accumulator
\* wraps and the count comes back to 0.
C13_DividedPhase ==
  /\ [](/\ lfo[0].divider_count < lfo[0].divider
        /\ lfo[0].divider_count = hist.wraps % lfo[0].divider
        /\ DividedHigh(lfo[0]) < W16)
  /\ [][\/ ~U32Lt(lfo'[0].divided_phase, lfo[0].divided_phase)
        \/ /\ hist'.wraps = hist.wraps + 1
           /\ lfo'[0].divider_count = 0
       ]_vars

\* With a divider of 3 the accumulator has wrapped 3 times and the count is
\* back at 0; divided_phase went up across the first two wraps.
C13_Witness ==
  /\ lfo[0].divider = 3
  /\ hist.wraps = 3
  /\ lfo[0].divider_count = 0
  /\ U32Lt(lfo[0].divided_phase, <<21846, 0>>)

\* ------------------------------------------------------------------------
\* Statements on the waveforms (SpecSample)
\* ------------------------------------------------------------------------
\* C14, as stated: ComputeSampleShape(s) returns the sample of shape s for
\* the current oscillator state, for each of the four selectors.
C14_SelectorDecides ==
  hist.out.fn = "ComputeSampleShape" =>
    hist.out.value = ShapeSwitch(hist.out.arg, lfo[0])

\* C20, as stated: in the lowest band and at full level, the closed-form
\* ramp value fits a signed 16 bit integer at every phase, and the sample of
\* ComputeSampleRamp is not below the sample at a phase 2^16 lower.
C20_RampMonotone ==
  hist.out.fn = "ComputeSampleRamp" =>
    LET ph == SamplePhase(lfo[0])
    IN  /\ RampClosedForm(ph) >= INT16_MIN
        /\ RampClosedForm(ph) <= INT16_MAX
        /\ ph[1] > 0 =>
             hist.out.value >= ComputeSampleRamp(LfoAt(<<ph[1] - 1, ph[2]>>))

\* ------------------------------------------------------------------------
\* Statements on the pitch response (SpecPitch)
\* ------------------------------------------------------------------------
\* The left shift of the increment of pitch loses no bit.
ShiftFits(t, pitch) ==
  LET n == NormalisePitch(pitch, 0)
  IN  n[2] > 0 => Shr(Shl(BaseIncrement(t, n[1]), n[2]), n[2])
                    = BaseIncrement(t, n[1])

\* C15: for a pitch p with p + kOctave in the range and no shift overflowing
\* 32 bits, the increment of p + kOctave is the increment of p shifted left
\* by one: exactly when the shift count of p is 0 or more, and with at most
\* the low bit more when it is negative; whatever the table.
C15_OctaveDoubles ==
  hist.out.fn = "ComputePhaseIncrement" =>
    LET t == hist.out.arg[1]
        p == hist.out.arg[2]
        up == ComputePhaseIncrement(t, p + kOctave)
        twice == Shl1(hist.out.value)
    IN  (p + kOctave <= MaxPitch /\ ShiftFits(t, p + kOctave)) =>
          IF NumShifts(p) >= 0
            THEN up = twice
            ELSE up = twice \/ up = U32Add(twice, <<0, 1>>)

\* A pitch two octaves below 0 whose increment lost its low bit to the right
\* shift: an octave up the increment is twice it plus one.
C15_Witness ==
  /\ hist.out.fn = "ComputePhaseIncrement"
  /\ NumShifts(hist.out.arg[2]) = -2
  /\ ComputePhaseIncrement(hist.out.arg[1], hist.out.arg[2] + kOctave)
       = U32Add(Shl1(hist.out.value), <<0, 1>>)

\* ------------------------------------------------------------------------
\* Statements on what the handlers leave alone (SpecFrame, SpecSwitchRun)
\* ------------------------------------------------------------------------
\* C16: handling a select release of at most 500 ms in ZOOM sets the mode to
\* NORMAL, sets catchup_pending for exactly the pots whose last reported
\* value is more than 1024 from their coarse value, and leaves the flag of
\* the other pots, the coarse and fine values, the feature mode and the
\* oscillators as they are.
C16_ZoomLeft ==
  [][(DoEventsStep /\ IsShortSelect(Head(queue)) /\ mode = UI_MODE_ZOOM) =>
       /\ mode' = UI_MODE_NORMAL
       /\ \A p \in Pots :
            catchup_state'[p] =
              IF Abs(pot_value[p] - pot_coarse_value[p]) > kCatchupThreshold
                THEN TRUE ELSE catchup_state[p]
       /\ UNCHANGED <<pot_coarse_value, pot_fine_value, feat_mode, lfo>>
    ]_vars

\* The zoom was just left with pot 0 turned away and the others at rest: pot
\* 0 is flagged, pot 1 is not, and the oscillators still run.
C16_Witness ==
  /\ IsShortSelect(last.e)
  /\ last.before.mode = UI_MODE_ZOOM
  /\ mode = UI_MODE_NORMAL
  /\ ~last.before.catchup[0]
  /\ catchup_state[0]
  /\ ~catchup_state[1]
  /\ lfo[0] = LfoStepped

\* C17: handling a pot event of pot i changes nothing in SPLASH; in ZOOM only
\* the fine value of pot i, which becomes the event's value; in NORMAL only
\* the coarse value and the catchup_pending flag of pot i.  In no mode does
\* it change the mode, the feature mode, the oscillators or another pot's
\* values.
C17_PotEventFrame ==
  [][(DoEventsStep /\ IsPot(Head(queue))) =>
       LET e == Head(queue)
           i == e.control_id
       IN  /\ UNCHANGED <<mode, feat_mode, lfo, pot_value, pot_filtered_value>>
           /\ \A p \in Pots \ {i} :
                /\ pot_coarse_value'[p] = pot_coarse_value[p]
                /\ pot_fine_value'[p] = pot_fine_value[p]
                /\ catchup_state'[p] = catchup_state[p]
           /\ mode = UI_MODE_SPLASH =>
                UNCHANGED <<pot_coarse_value, pot_fine_value, catchup_state>>
           /\ mode = UI_MODE_ZOOM =>
                /\ pot_fine_value'[i] = e.data
                /\ UNCHANGED <<pot_coarse_value, catchup_state>>
           /\ mode = UI_MODE_NORMAL => UNCHANGED pot_fine_value
    ]_vars

\* The panel went from SPLASH to ZOOM to NORMAL with pot 0 turned: a pot
\* event handled in ZOOM is now the fine value of pot 0, the coarse value is
\* still the one of Ui::Init, and a pot event has just been handled in
\* NORMAL.
C17_Witness ==
  /\ IsPot(last.e)
  /\ last.before.mode = UI_MODE_NORMAL
  /\ hist.modes = <<UI_MODE_SPLASH, UI_MODE_ZOOM, UI_MODE_NORMAL>>
  /\ pot_fine_value[0] # kFineCenter
  /\ pot_fine_value[0] # pot_value[0]
  /\ pot_coarse_value[0] = AdcRest[0]

\* C18: handling a switch event that is a press event (data 0), or comes
\* from a switch other than the select switch, or carries a duration above
\* 2000 ms, leaves the mode, the feature mode, the pot values, the
\* catchup_pending flags and the oscillators as they are.
C18_IgnoredSwitchEvents ==
  [][(DoEventsStep /\ Head(queue).control_type = CONTROL_SWITCH
        /\ (\/ Head(queue).data = 0
            \/ Head(queue).control_id # SWITCH_SELECT
            \/ Head(queue).data > kVeryLongPressDuration)) =>
       UNCHANGED <<mode, feat_mode, pot_value, pot_filtered_value,
                   pot_coarse_value, pot_fine_value, catchup_state, lfo>>
    ]_vars

\* The sync switch was held past the long press, and its long-press event
\* has just been handled in SPLASH without a change.
C18_Witness ==
  /\ last.e.control_type = CONTROL_SWITCH
  /\ last.e.control_id = SWITCH_SYNC
  /\ last.e.data > kLongPressDuration
  /\ last.before = UiNow
  /\ mode = UI_MODE_SPLASH

\* ------------------------------------------------------------------------
\* Statement on the pots that are not flagged (SpecPot)
\* ------------------------------------------------------------------------
\* C19, as stated: in NORMAL, with the queue drained by DoEvents, every pot
\* whose catchup_pending is false has its last reported value within 1024
\* of its coarse value (here: at most 1024 away).
C19_UnflaggedFollows ==
  (mode = UI_MODE_NORMAL /\ queue = <<>> /\ ~in_do_events) =>
    \A p \in Pots :
      ~catchup_state[p] =>
        Abs(pot_value[p] - pot_coarse_value[p]) <= kCatchupThreshold

========================================================================
